---- MODULE Spec2Model ----
(***************************************************************************)
(* Model of the training orchestrator main() of train_ar.py: N processes   *)
(* run the same program; each process is at a position pc[p] of main().    *)
(* The collaborators of utils/train_utils.py (auto_resume,                 *)
(* train_one_epoch_generator, save_checkpoint) are modelled by their       *)
(* contracts.  setup_logger of utils/logger.py is modelled on the logging  *)
(* state of each process; LoggerSpec exercises it on its own.              *)
(***************************************************************************)
EXTENDS Integers, Sequences, FiniteSets, TLC

\* ---------------------------------------------------------------- bounds
MaxProcs == 2
MaxTrainSteps == 3
MaxCheckpointStep == 4
MaxShortfall == 1
MaxSetupCalls == 3

\* values the configuration fields are drawn from
ExampleChoices == {4, 1000}
BatchChoices == {1, 10}
AccumChoices == {1, 5}

VARIABLES
    config,          \* the RunConfig fields main() reads, plus accelerator.num_processes
    store,           \* checkpoint steps found in output_dir at startup
    epoch_len,       \* optimizer updates the dataloader yields per epoch
    loadable,        \* the checkpoint found at startup passes a strict load
    bad_field,       \* the required configuration field that is missing or malformed
    loaded_logging_dir, \* experiment.logging_dir as returned by get_config()
    logging_dir,     \* config.experiment.logging_dir of each process's config object
    out_dirs,        \* os.makedirs(output_dir) calls completed, per process
    snapshot_file,   \* content of output_dir/config.yaml
    lru,             \* entries of setup_logger's lru_cache, least recent first, per process
    handlers,        \* handlers attached to each named logger, per process
    levels,          \* level of each named logger, per process
    adapters,        \* MultiProcessAdapter objects created, per process
    results,         \* setup_logger calls made so far with the object returned, per process
    logger,          \* the object main() holds in `logger`, per process
    log_calls,       \* logger.info calls made by main(), per process
    file_lines,      \* lines written to the process's log files
    console_lines,   \* lines the process wrote to stdout
    pc,              \* position of each process in main()
    crashed,         \* process ended by an exception
    total_batch_size_without_accum,
    num_batches,
    num_update_steps_per_epoch,
    num_train_epochs,
    global_step,
    first_epoch,
    current_epoch,
    remaining,       \* updates left in the running epoch invocation
    calls,           \* invocations of train_one_epoch_generator so far
    updates,         \* optimizer updates executed by this run
    trackers,        \* init_trackers calls completed, per process
    snapshots,       \* config.yaml writes completed, per process
    saved,           \* checkpoint steps written by the final save, per process
    exports          \* save_pretrained_weight calls completed, per process

vars == <<config, store, epoch_len, loadable, bad_field, loaded_logging_dir,
          logging_dir, out_dirs, snapshot_file,
          lru, handlers, levels, adapters, results, logger,
          log_calls, file_lines, console_lines, pc, crashed,
          total_batch_size_without_accum, num_batches,
          num_update_steps_per_epoch, num_train_epochs,
          global_step, first_epoch, current_epoch, remaining,
          calls, updates, trackers, snapshots, saved, exports>>

derived == <<total_batch_size_without_accum, num_batches,
             num_update_steps_per_epoch, num_train_epochs>>

counters == <<global_step, first_epoch, current_epoch, remaining, calls, updates>>

effects == <<trackers, snapshots, saved, exports>>

env == <<config, store, epoch_len, loadable, bad_field, loaded_logging_dir>>

dirs == <<logging_dir, out_dirs>>

logging == <<lru, handlers, levels, adapters, results, logger>>

logs == <<log_calls, file_lines, console_lines>>

\* ------------------------------------------------------------- helpers
Procs == 0 .. (config.num_processes - 1)

\* accelerator.is_main_process
IsMainProcess(p) == p = 0

\* math.ceil(a / b) for positive integers (the float quotient is exact in
\* the ranges used here)
Ceil(a, b) == IF a % b = 0 THEN a \div b ELSE (a \div b) + 1

\* variant: the number of processes is left out of the batch size
TotalBatchSizeSingle(c) == c.per_gpu_batch_size

TotalBatchSize(c) == c.per_gpu_batch_size * c.num_processes

NumBatches(c) == Ceil(c.max_train_examples, TotalBatchSize(c))

NumUpdateStepsPerEpoch(c) == Ceil(NumBatches(c), c.gradient_accumulation_steps)

\* variant: the quotient is rounded down
NumTrainEpochsFloor(c) == c.max_train_steps \div NumUpdateStepsPerEpoch(c)

NumTrainEpochs(c) == Ceil(c.max_train_steps, NumUpdateStepsPerEpoch(c))

\* order of the positions of main()
Positions == << "start", "setup", "save_config", "wait_pre", "derive", "auto_resume",
                "loop", "train", "wait_post", "save_checkpoint",
                "save_sync", "export", "end_training", "done" >>

Rank(l) == CHOOSE i \in 1 .. Len(Positions) : Positions[i] = l

\* a live process has arrived at (or passed) position l
Arrived(q, l) == (~crashed[q]) /\ Rank(pc[q]) >= Rank(l)

SetMax(S) == CHOOSE s \in S : \A t \in S : t <= s

\* ------------------------------------------- logger (utils/logger.py)
LoggerNames == { "ARModel", "AR" }

\* argument tuples of setup_logger; "None" stands for Python's None
LoggerArgChoices ==
    [ name : {"ARModel"}, log_level : {"None", "INFO"}, color : BOOLEAN,
      use_accelerate : BOOLEAN, output_file : {"None", "log0.txt"} ]
    \cup
    [ name : {"AR"}, log_level : {"None"}, color : {TRUE},
      use_accelerate : BOOLEAN, output_file : {"None"} ]

\* functools.lru_cache() keeps at most 128 entries
LruMaxSize == 128

NoLogger == [ kind |-> "none", id |-> 0, name |-> "" ]

\* log_level.upper()
Upper(l) ==
    CASE l = "info" -> "INFO"
      [] l = "debug" -> "DEBUG"
      [] OTHER -> l

\* the body of setup_logger (lines 37-67) run on the logging state
\* (hs, lv, ad) of a process: it sets the level, attaches a new console
\* handler and, with an output file, a new file handler to the named
\* logger, and returns a new MultiProcessAdapter or the logger itself
SetupBody(hs, lv, ad, a) ==
    LET ch == [ kind |-> "console", file |-> "stdout", color |-> a.color ]
        fh == [ kind |-> "file", file |-> a.output_file, color |-> a.color ]
        added == IF a.output_file = "None" THEN << ch >> ELSE << ch, fh >>
    IN [ handlers |-> [hs EXCEPT ![a.name] = @ \o added],
         levels |-> [lv EXCEPT ![a.name] =
                        IF a.log_level = "None" THEN "DEBUG" ELSE Upper(a.log_level)],
         adapters |-> IF a.use_accelerate THEN ad + 1 ELSE ad,
         handle |-> IF a.use_accelerate
                    THEN [ kind |-> "adapter", id |-> ad + 1, name |-> a.name ]
                    ELSE [ kind |-> "logger", id |-> 0, name |-> a.name ] ]

\* position of the cache entry for the arguments a, 0 if there is none
CacheIndex(cache, a) ==
    IF \E i \in 1 .. Len(cache) : cache[i][1] = a
    THEN CHOOSE i \in 1 .. Len(cache) : cache[i][1] = a
    ELSE 0

Without(seq, i) == [ j \in 1 .. (Len(seq) - 1) |-> IF j < i THEN seq[j] ELSE seq[j + 1] ]

\* variant: setup_logger without the lru_cache decorator
setup_logger_uncached(p, a) ==
    LET r == SetupBody(handlers[p], levels[p], adapters[p], a)
    IN /\ handlers' = [handlers EXCEPT ![p] = r.handlers]
       /\ levels' = [levels EXCEPT ![p] = r.levels]
       /\ adapters' = [adapters EXCEPT ![p] = r.adapters]
       /\ results' = [results EXCEPT ![p] = Append(@, << a, r.handle >>)]
       /\ UNCHANGED lru

\* @functools.lru_cache() def setup_logger(...): a call with arguments seen
\* before returns the cached object without running the body
setup_logger(p, a) ==
    LET i == CacheIndex(lru[p], a)
        r == SetupBody(handlers[p], levels[p], adapters[p], a)
    IN IF i > 0
       THEN /\ lru' = [lru EXCEPT ![p] = Append(Without(@, i), lru[p][i])]
            /\ results' = [results EXCEPT ![p] = Append(@, << a, lru[p][i][2] >>)]
            /\ UNCHANGED << handlers, levels, adapters >>
       ELSE /\ lru' = [lru EXCEPT ![p] =
                          Append(IF Len(@) >= LruMaxSize THEN Tail(@) ELSE @,
                                 << a, r.handle >>)]
            /\ handlers' = [handlers EXCEPT ![p] = r.handlers]
            /\ levels' = [levels EXCEPT ![p] = r.levels]
            /\ adapters' = [adapters EXCEPT ![p] = r.adapters]
            /\ results' = [results EXCEPT ![p] = Append(@, << a, r.handle >>)]

\* number of handlers of a kind in a handler list
CountKind(hs, k) == Cardinality({ i \in 1 .. Len(hs) : hs[i].kind = k })

\* number of file handlers of a handler list that write to file f
CountFile(hs, f) ==
    Cardinality({ i \in 1 .. Len(hs) : hs[i].kind = "file" /\ hs[i].file = f })

\* files opened by the file handlers of process p
LogFiles(p) ==
    UNION { { handlers[p][n][i].file :
                i \in { j \in 1 .. Len(handlers[p][n]) :
                           handlers[p][n][j].kind = "file" } } :
            n \in LoggerNames }

\* numeric value of a logging level
LevelNo(l) ==
    CASE l = "DEBUG" -> 10
      [] l = "INFO" -> 20
      [] OTHER -> 30

\* MultiProcessAdapter.log with the default main_process_only=True hands
\* the record to the wrapped logger on the main process only; a plain
\* logger always handles it
HandleEmits(p, h) == h.kind = "logger" \/ IsMainProcess(p)

\* n calls of logger.info(...) in main()
LogInfo(p, n) ==
    LET h == logger[p]
        on == HandleEmits(p, h) /\ LevelNo(levels[p][h.name]) <= LevelNo("INFO")
    IN /\ log_calls' = [log_calls EXCEPT ![p] = @ + n]
       /\ file_lines' = [file_lines EXCEPT ![p] =
             @ + (IF on THEN n * CountKind(handlers[p][h.name], "file") ELSE 0)]
       /\ console_lines' = [console_lines EXCEPT ![p] =
             @ + (IF on THEN n * CountKind(handlers[p][h.name], "console") ELSE 0)]

\* output_file=f"{output_dir}/log{accelerator.process_index}.txt"
LogFile(p) == "log" \o ToString(p) \o ".txt"

\* the arguments of the call at lines 49-50 (color and use_accelerate default)
MainLoggerArgs(p) ==
    [ name |-> "ARModel", log_level |-> "INFO", color |-> TRUE,
      use_accelerate |-> TRUE, output_file |-> LogFile(p) ]

\* required fields whose absence is followed here, with the place of their
\* first use: experiment.output_dir (line 32), training.per_gpu_batch_size
\* (line 98), training.max_train_steps (line 107)
CheckedFields == { "experiment.output_dir", "training.per_gpu_batch_size",
                   "training.max_train_steps" }

NoField == "none"

\* values of experiment.logging_dir in the loaded configuration
LoggingDirChoices == { "unset", "output_dir/logs" }

\* the configuration object of process p as it stands now
CurrentConfig(p) == << config, logging_dir[p] >>

\* the configuration as get_config() returned it
LoadedConfig == << config, loaded_logging_dir >>

\* variant: auto_resume is called in non-strict mode
StrictOff == FALSE

\* strict=True in the call of auto_resume
Strict == TRUE

\* ---------------------------------------------------------------- Init
Init ==
    /\ config \in [ max_train_examples : ExampleChoices,
                    per_gpu_batch_size : BatchChoices,
                    gradient_accumulation_steps : AccumChoices,
                    max_train_steps : 1 .. MaxTrainSteps,
                    num_processes : 1 .. MaxProcs ]
    /\ store \in {{}} \cup { {s} : s \in 0 .. MaxCheckpointStep }
    /\ epoch_len \in { e \in 1 .. NumUpdateStepsPerEpoch(config) :
                         e + MaxShortfall >= NumUpdateStepsPerEpoch(config) }
    /\ loadable \in (IF store = {} THEN {TRUE} ELSE BOOLEAN)
    /\ bad_field \in {NoField} \cup CheckedFields
    /\ loaded_logging_dir \in LoggingDirChoices
    /\ logging_dir = [p \in Procs |-> loaded_logging_dir]
    /\ out_dirs = [p \in Procs |-> 0]
    /\ snapshot_file = {}
    /\ lru = [p \in Procs |-> << >>]
    /\ handlers = [p \in Procs |-> [n \in LoggerNames |-> << >>]]
    /\ levels = [p \in Procs |-> [n \in LoggerNames |-> "NOTSET"]]
    /\ adapters = [p \in Procs |-> 0]
    /\ results = [p \in Procs |-> << >>]
    /\ logger = [p \in Procs |-> NoLogger]
    /\ log_calls = [p \in Procs |-> 0]
    /\ file_lines = [p \in Procs |-> 0]
    /\ console_lines = [p \in Procs |-> 0]
    /\ pc = [p \in Procs |-> "start"]
    /\ crashed = [p \in Procs |-> FALSE]
    /\ total_batch_size_without_accum = [p \in Procs |-> 0]
    /\ num_batches = [p \in Procs |-> 0]
    /\ num_update_steps_per_epoch = [p \in Procs |-> 0]
    /\ num_train_epochs = [p \in Procs |-> 0]
    /\ global_step = [p \in Procs |-> 0]
    /\ first_epoch = [p \in Procs |-> 0]
    /\ current_epoch = [p \in Procs |-> 0]
    /\ remaining = [p \in Procs |-> 0]
    /\ calls = [p \in Procs |-> 0]
    /\ updates = [p \in Procs |-> 0]
    /\ trackers = [p \in Procs |-> 0]
    /\ snapshots = [p \in Procs |-> 0]
    /\ saved = [p \in Procs |-> {}]
    /\ exports = [p \in Procs |-> 0]

\* ------------------------------------------------ startup (lines 20-50)
\* config = get_config(); output_dir = config.experiment.output_dir;
\* os.makedirs(output_dir, exist_ok=True);
\* config.experiment.logging_dir = os.path.join(output_dir, "logs")
\* accelerator = Accelerator(...); logger = setup_logger(name="ARModel", ...)
Startup(p) ==
    /\ pc[p] = "start" /\ ~crashed[p]
    /\ bad_field # "experiment.output_dir"
    /\ out_dirs' = [out_dirs EXCEPT ![p] = @ + 1]
    /\ logging_dir' = [logging_dir EXCEPT ![p] = "output_dir/logs"]
    /\ setup_logger(p, MainLoggerArgs(p))
    /\ logger' = [logger EXCEPT ![p] = results'[p][Len(results'[p])][2]]
    /\ pc' = [pc EXCEPT ![p] = "setup"]
    /\ UNCHANGED <<env, snapshot_file, logs, crashed, derived, counters, effects>>

\* experiment.output_dir is missing: lines 32-33 raise
StartupFail(p) ==
    /\ pc[p] = "start" /\ ~crashed[p]
    /\ bad_field = "experiment.output_dir"
    /\ crashed' = [crashed EXCEPT ![p] = TRUE]
    /\ UNCHANGED <<env, dirs, snapshot_file, logging, logs, pc, derived, counters, effects>>

\* ------------------------------------------------ startup (lines 54-65)
\* if accelerator.is_main_process: accelerator.init_trackers(...)
InitTrackers(p) ==
    /\ pc[p] = "setup" /\ ~crashed[p]
    /\ IsMainProcess(p)
    /\ trackers' = [trackers EXCEPT ![p] = @ + 1]
    /\ pc' = [pc EXCEPT ![p] = "save_config"]
    /\ UNCHANGED <<env, dirs, snapshot_file, logging, logs, crashed, derived, counters, snapshots, saved, exports>>

\* init_trackers raises on the main process
InitTrackersFail(p) ==
    /\ pc[p] = "setup" /\ ~crashed[p]
    /\ IsMainProcess(p)
    /\ crashed' = [crashed EXCEPT ![p] = TRUE]
    /\ UNCHANGED <<env, dirs, snapshot_file, logging, logs, pc, derived, counters, effects>>

\* the other processes skip the main-process branch
SkipMainOnly(p) ==
    /\ pc[p] = "setup" /\ ~crashed[p]
    /\ ~IsMainProcess(p)
    /\ pc' = [pc EXCEPT ![p] = "wait_pre"]
    /\ UNCHANGED <<env, dirs, snapshot_file, logging, logs, crashed, derived, counters, effects>>

\* OmegaConf.save(config, config_path)
SaveConfig(p) ==
    /\ pc[p] = "save_config" /\ ~crashed[p]
    /\ snapshots' = [snapshots EXCEPT ![p] = @ + 1]
    /\ snapshot_file' = {CurrentConfig(p)}
    /\ LogInfo(p, 2)
    /\ pc' = [pc EXCEPT ![p] = "wait_pre"]
    /\ UNCHANGED <<env, dirs, logging, crashed, derived, counters, trackers, saved, exports>>

SaveConfigFail(p) ==
    /\ pc[p] = "save_config" /\ ~crashed[p]
    /\ crashed' = [crashed EXCEPT ![p] = TRUE]
    /\ UNCHANGED <<env, dirs, snapshot_file, logging, logs, pc, derived, counters, effects>>

\* variant: the barrier call sits inside the main-process branch, so only
\* the main process calls it and it is matched by the others' next barrier call
WaitPreMainOnly(p) ==
    /\ pc[p] = "wait_pre" /\ ~crashed[p]
    /\ IsMainProcess(p) =>
          \A q \in Procs \ {p} : Arrived(q, "wait_post")
    /\ pc' = [pc EXCEPT ![p] = "derive"]
    /\ UNCHANGED <<env, dirs, snapshot_file, logging, logs, crashed, derived, counters, effects>>

\* variant: the barrier lets a process through alone
WaitPreNoBlock(p) ==
    /\ pc[p] = "wait_pre" /\ ~crashed[p]
    /\ pc' = [pc EXCEPT ![p] = "derive"]
    /\ UNCHANGED <<env, dirs, snapshot_file, logging, logs, crashed, derived, counters, effects>>

\* accelerator.wait_for_everyone() before training
WaitPre(p) ==
    /\ pc[p] = "wait_pre" /\ ~crashed[p]
    /\ \A q \in Procs : Arrived(q, "wait_pre")
    /\ pc' = [pc EXCEPT ![p] = "derive"]
    /\ UNCHANGED <<env, dirs, snapshot_file, logging, logs, crashed, derived, counters, effects>>

\* ------------------------------------------- derivation (lines 98-107)
DerivationFields == { "training.per_gpu_batch_size",
                      "training.max_train_steps" }

\* a field read by lines 98-107 is missing or malformed: the arithmetic
\* raises, after the logger.info of line 85
DeriveFail(p) ==
    /\ pc[p] = "derive" /\ ~crashed[p]
    /\ bad_field \in DerivationFields
    /\ LogInfo(p, 1)
    /\ crashed' = [crashed EXCEPT ![p] = TRUE]
    /\ UNCHANGED <<env, dirs, snapshot_file, logging, pc, derived, counters, effects>>

Derive(p) ==
    /\ pc[p] = "derive" /\ ~crashed[p]
    /\ bad_field \notin DerivationFields
    /\ total_batch_size_without_accum' =
           [total_batch_size_without_accum EXCEPT ![p] = TotalBatchSize(config)]
    /\ num_batches' = [num_batches EXCEPT ![p] = NumBatches(config)]
    /\ num_update_steps_per_epoch' =
           [num_update_steps_per_epoch EXCEPT ![p] = NumUpdateStepsPerEpoch(config)]
    /\ num_train_epochs' = [num_train_epochs EXCEPT ![p] = NumTrainEpochs(config)]
    /\ LogInfo(p, 1)
    /\ pc' = [pc EXCEPT ![p] = "auto_resume"]
    /\ UNCHANGED <<env, dirs, snapshot_file, logging, crashed, counters, effects>>

\* ------------------------------------------ auto-resume (lines 117-122)
\* auto_resume(config, logger, accelerator, ema_model,
\*             num_update_steps_per_epoch, strict=True): a fresh start when
\* no checkpoint is listed, else the latest checkpoint's global_step and
\* first_epoch = global_step // num_update_steps_per_epoch
auto_resume(listing, updates_per_epoch) ==
    IF listing = {}
    THEN << 0, 0 >>
    ELSE << SetMax(listing), SetMax(listing) \div updates_per_epoch >>

\* the load of a detected checkpoint succeeds; in strict mode every
\* expected component must be present
LoadSucceeds(strict) == store = {} \/ loadable \/ ~strict

\* the detected checkpoint fails the strict load: auto_resume raises and
\* main() does not catch it
AutoResumeFail(p) ==
    /\ pc[p] = "auto_resume" /\ ~crashed[p]
    /\ ~LoadSucceeds(Strict)
    /\ LogInfo(p, 5)
    /\ crashed' = [crashed EXCEPT ![p] = TRUE]
    /\ UNCHANGED <<env, dirs, snapshot_file, logging, pc, derived, counters, effects>>

\* variant: the result of auto_resume is dropped
AutoResumeIgnored(p) ==
    /\ pc[p] = "auto_resume" /\ ~crashed[p]
    /\ global_step' = [global_step EXCEPT ![p] = 0]
    /\ first_epoch' = [first_epoch EXCEPT ![p] = 0]
    /\ current_epoch' = [current_epoch EXCEPT ![p] = 0]
    /\ LogInfo(p, 5)
    /\ pc' = [pc EXCEPT ![p] = "loop"]
    /\ UNCHANGED <<env, dirs, snapshot_file, logging, crashed, derived, remaining, calls, updates, effects>>

\* the five logger.info calls of lines 109-116, then
\* global_step = 0; first_epoch = 0; global_step, first_epoch = auto_resume(...)
AutoResume(p) ==
    /\ pc[p] = "auto_resume" /\ ~crashed[p]
    /\ LoadSucceeds(Strict)
    /\ LET r == auto_resume(store, num_update_steps_per_epoch[p])
       IN /\ global_step' = [global_step EXCEPT ![p] = r[1]]
          /\ first_epoch' = [first_epoch EXCEPT ![p] = r[2]]
          /\ current_epoch' = [current_epoch EXCEPT ![p] = r[2]]
    /\ LogInfo(p, 5)
    /\ pc' = [pc EXCEPT ![p] = "loop"]
    /\ UNCHANGED <<env, dirs, snapshot_file, logging, crashed, derived, remaining, calls, updates, effects>>

\* ------------------------------------------- epoch loop (lines 124-139)
\* for current_epoch in range(first_epoch, num_train_epochs): the body is
\* entered and train_one_epoch_generator is called
EpochInvoke(p) ==
    /\ pc[p] = "loop" /\ ~crashed[p]
    /\ current_epoch[p] < num_train_epochs[p]
    /\ calls' = [calls EXCEPT ![p] = @ + 1]
    /\ remaining' = [remaining EXCEPT ![p] = epoch_len]
    /\ pc' = [pc EXCEPT ![p] = "train"]
    /\ UNCHANGED <<env, dirs, snapshot_file, logging, logs, crashed, derived, global_step, first_epoch,
                   current_epoch, updates, effects>>

\* the range is exhausted: the loop ends without a break
LoopExhausted(p) ==
    /\ pc[p] = "loop" /\ ~crashed[p]
    /\ current_epoch[p] >= num_train_epochs[p]
    /\ pc' = [pc EXCEPT ![p] = "wait_post"]
    /\ UNCHANGED <<env, dirs, snapshot_file, logging, logs, crashed, derived, counters, effects>>

\* train_one_epoch_generator: one optimizer update, executed by all
\* processes together (gradient synchronisation); the step loop stops once
\* global_step has reached max_train_steps
TrainStep ==
    /\ \A q \in Procs : pc[q] = "train" /\ ~crashed[q] /\ remaining[q] > 0
    /\ global_step' = [q \in Procs |-> global_step[q] + 1]
    /\ updates' = [q \in Procs |-> updates[q] + 1]
    /\ remaining' = [q \in Procs |->
                        IF global_step[q] + 1 >= config.max_train_steps
                        THEN 0 ELSE remaining[q] - 1]
    /\ UNCHANGED <<env, dirs, snapshot_file, logging, logs, pc, crashed, derived, first_epoch, current_epoch,
                   calls, effects>>

\* variant: the loop has no break
EpochCheckNoBreak(p) ==
    /\ pc[p] = "train" /\ ~crashed[p]
    /\ remaining[p] = 0
    /\ pc' = [pc EXCEPT ![p] = "loop"]
    /\ current_epoch' = [current_epoch EXCEPT ![p] = @ + 1]
    /\ UNCHANGED <<env, dirs, snapshot_file, logging, logs, crashed, derived, global_step, first_epoch,
                   remaining, calls, updates, effects>>

\* the call returns; if global_step >= config.training.max_train_steps: break
EpochCheck(p) ==
    /\ pc[p] = "train" /\ ~crashed[p]
    /\ remaining[p] = 0
    /\ IF global_step[p] >= config.max_train_steps
       THEN /\ pc' = [pc EXCEPT ![p] = "wait_post"]
            /\ UNCHANGED current_epoch
       ELSE /\ pc' = [pc EXCEPT ![p] = "loop"]
            /\ current_epoch' = [current_epoch EXCEPT ![p] = @ + 1]
    /\ UNCHANGED <<env, dirs, snapshot_file, logging, logs, crashed, derived, global_step, first_epoch,
                   remaining, calls, updates, effects>>

\* --------------------------------------------- closing (lines 141-150)
\* variant: the export comes before the final checkpoint save
WaitPostSkipSave(p) ==
    /\ pc[p] = "wait_post" /\ ~crashed[p]
    /\ \A q \in Procs : Arrived(q, "wait_post")
    /\ pc' = [pc EXCEPT ![p] = "export"]
    /\ UNCHANGED <<env, dirs, snapshot_file, logging, logs, crashed, derived, counters, effects>>

\* variant: the barrier lets a process through alone
WaitPostNoBlock(p) ==
    /\ pc[p] = "wait_post" /\ ~crashed[p]
    /\ pc' = [pc EXCEPT ![p] = "save_checkpoint"]
    /\ UNCHANGED <<env, dirs, snapshot_file, logging, logs, crashed, derived, counters, effects>>

\* accelerator.wait_for_everyone() after training
WaitPost(p) ==
    /\ pc[p] = "wait_post" /\ ~crashed[p]
    /\ \A q \in Procs : Arrived(q, "wait_post")
    /\ pc' = [pc EXCEPT ![p] = "save_checkpoint"]
    /\ UNCHANGED <<env, dirs, snapshot_file, logging, logs, crashed, derived, counters, effects>>

\* save_checkpoint(model, output_dir, accelerator, global_step): called by
\* every process, written by the main process only
SaveCheckpoint(p) ==
    /\ pc[p] = "save_checkpoint" /\ ~crashed[p]
    /\ saved' = [saved EXCEPT ![p] =
                    IF IsMainProcess(p) THEN @ \cup {global_step[p]} ELSE @]
    /\ pc' = [pc EXCEPT ![p] = "save_sync"]
    /\ UNCHANGED <<env, dirs, snapshot_file, logging, logs, crashed, derived, counters, trackers, snapshots, exports>>

\* variant: save_checkpoint returns without waiting for the write
SaveSyncNoBlock(p) ==
    /\ pc[p] = "save_sync" /\ ~crashed[p]
    /\ pc' = [pc EXCEPT ![p] = "export"]
    /\ UNCHANGED <<env, dirs, snapshot_file, logging, logs, crashed, derived, counters, effects>>

\* the synchronisation point that ends save_checkpoint
SaveSync(p) ==
    /\ pc[p] = "save_sync" /\ ~crashed[p]
    /\ \A q \in Procs : Arrived(q, "save_sync")
    /\ pc' = [pc EXCEPT ![p] = "export"]
    /\ UNCHANGED <<env, dirs, snapshot_file, logging, logs, crashed, derived, counters, effects>>

\* variant: the export is not restricted to the main process
ExportByAll(p) ==
    /\ pc[p] = "export" /\ ~crashed[p]
    /\ exports' = [exports EXCEPT ![p] = @ + 1]
    /\ pc' = [pc EXCEPT ![p] = "end_training"]
    /\ UNCHANGED <<env, dirs, snapshot_file, logging, logs, crashed, derived, counters, trackers, snapshots, saved>>

\* if accelerator.is_main_process: ... model.save_pretrained_weight(output_dir)
Export(p) ==
    /\ pc[p] = "export" /\ ~crashed[p]
    /\ IsMainProcess(p)
    /\ exports' = [exports EXCEPT ![p] = @ + 1]
    /\ pc' = [pc EXCEPT ![p] = "end_training"]
    /\ UNCHANGED <<env, dirs, snapshot_file, logging, logs, crashed, derived, counters, trackers, snapshots, saved>>

ExportFail(p) ==
    /\ pc[p] = "export" /\ ~crashed[p]
    /\ IsMainProcess(p)
    /\ crashed' = [crashed EXCEPT ![p] = TRUE]
    /\ UNCHANGED <<env, dirs, snapshot_file, logging, logs, pc, derived, counters, effects>>

SkipExport(p) ==
    /\ pc[p] = "export" /\ ~crashed[p]
    /\ ~IsMainProcess(p)
    /\ pc' = [pc EXCEPT ![p] = "end_training"]
    /\ UNCHANGED <<env, dirs, snapshot_file, logging, logs, crashed, derived, counters, effects>>

\* accelerator.end_training()
EndTraining(p) ==
    /\ pc[p] = "end_training" /\ ~crashed[p]
    /\ pc' = [pc EXCEPT ![p] = "done"]
    /\ UNCHANGED <<env, dirs, snapshot_file, logging, logs, crashed, derived, counters, effects>>

ProcStep(p) ==
    \/ Startup(p)
    \/ StartupFail(p)
    \/ DeriveFail(p)
    \/ AutoResumeFail(p)
    \/ InitTrackers(p)
    \/ InitTrackersFail(p)
    \/ SkipMainOnly(p)
    \/ SaveConfig(p)
    \/ SaveConfigFail(p)
    \/ WaitPre(p)
    \/ Derive(p)
    \/ AutoResume(p)
    \/ EpochInvoke(p)
    \/ LoopExhausted(p)
    \/ EpochCheck(p)
    \/ WaitPost(p)
    \/ SaveCheckpoint(p)
    \/ SaveSync(p)
    \/ Export(p)
    \/ ExportFail(p)
    \/ SkipExport(p)
    \/ EndTraining(p)

Next ==
    \/ \E p \in Procs : ProcStep(p)
    \/ TrainStep

Spec == Init /\ [][Next]_vars

\* runs with a complete configuration, for the properties about waiting
FairInit ==
    /\ Init
    /\ bad_field = NoField
    /\ loaded_logging_dir = "unset"

FairSpec == FairInit /\ [][Next]_vars /\ WF_vars(Next)

\* ------------------------------------ the logger module used on its own
\* one process with a fresh logging state requests loggers any number of
\* times with any arguments
LoggerRequest(a) ==
    /\ Len(results[0]) < MaxSetupCalls
    /\ setup_logger(0, a)
    /\ UNCHANGED <<env, dirs, snapshot_file, logger, logs, pc, crashed,
                   derived, counters, effects>>

LoggerInit ==
    /\ Init
    /\ config = [ max_train_examples |-> 4, per_gpu_batch_size |-> 1,
                  gradient_accumulation_steps |-> 1, max_train_steps |-> 1,
                  num_processes |-> 1 ]
    /\ store = {}
    /\ epoch_len = NumUpdateStepsPerEpoch(config)
    /\ bad_field = NoField
    /\ loaded_logging_dir = "unset"

LoggerNext == \E a \in LoggerArgChoices : LoggerRequest(a)

LoggerSpec == LoggerInit /\ [][LoggerNext]_vars

\* ------------------------------------------------------------ properties
At(p, l) == pc[p] = l /\ ~crashed[p]

Reached(p, l) == Rank(pc[p]) >= Rank(l)

\* the step recorded by the checkpoint found at startup
ResumeStep == SetMax(store)

\* C1: once main() has derived num_train_epochs, it is the ceiling of
\* max_train_steps / num_update_steps_per_epoch: num_train_epochs *
\* updates_per_epoch >= max_train_steps and (num_train_epochs - 1) *
\* updates_per_epoch < max_train_steps.
C1_CeilingProperty ==
    \A p \in Procs :
        Reached(p, "auto_resume") =>
            /\ num_train_epochs[p] * num_update_steps_per_epoch[p]
                   >= config.max_train_steps
            /\ (num_train_epochs[p] - 1) * num_update_steps_per_epoch[p]
                   < config.max_train_steps

C1_Witness ==
    \E p \in Procs :
        /\ Reached(p, "auto_resume")
        /\ num_train_epochs[p] >= 2
        /\ config.max_train_steps % num_update_steps_per_epoch[p] # 0

\* C2: a process that has left the epoch loop (and has not failed) has
\* global_step >= max_train_steps, whatever the starting point and however
\* many updates an epoch contributes.
C2_LoopExitMeetsBudget ==
    \A p \in Procs :
        Reached(p, "wait_post") => global_step[p] >= config.max_train_steps

\* C3: the step loop is never invoked again after an invocation that
\* returned global_step >= max_train_steps: every invocation but the first
\* of a run starts with global_step < max_train_steps.
C3_NoInvokeAfterBudget ==
    [][ \A p \in Procs :
          (calls'[p] > calls[p] /\ calls[p] > 0)
              => global_step[p] < config.max_train_steps ]_vars

C3_Witness ==
    \E p \in Procs :
        /\ At(p, "wait_post")
        /\ calls[p] >= 1
        /\ global_step[p] >= config.max_train_steps
        /\ current_epoch[p] < num_train_epochs[p] - 1

C4Config ==
    [ max_train_examples |-> 1000,
      per_gpu_batch_size |-> 10,
      gradient_accumulation_steps |-> 5,
      max_train_steps |-> 3,
      num_processes |-> 2 ]

\* C4: for max_train_examples=1000, per_gpu_batch_size=10, num_processes=2,
\* gradient_accumulation_steps=5, max_train_steps=3 started fresh, the
\* derived values are 20, 50, 10 and 1, the step loop is invoked exactly
\* once and the run ends with global_step = 3.
C4_EndToEnd ==
    (config = C4Config /\ store = {}) =>
        \A p \in Procs :
            /\ Reached(p, "auto_resume") =>
                  /\ total_batch_size_without_accum[p] = 20
                  /\ num_batches[p] = 50
                  /\ num_update_steps_per_epoch[p] = 10
                  /\ num_train_epochs[p] = 1
            /\ calls[p] <= 1
            /\ Reached(p, "wait_post") => (calls[p] = 1 /\ global_step[p] = 3)

C4_Witness ==
    /\ config = C4Config
    /\ store = {}
    /\ \A p \in Procs : At(p, "done") /\ updates[p] = 3

\* C5: with a checkpoint of step S at startup, the epoch loop starts with
\* global_step = S and first_epoch = S // updates_per_epoch, and afterwards
\* global_step never decreases and is never below S.
C5_ResumePoint ==
    /\ [](\A p \in Procs :
            (store # {} /\ Reached(p, "loop")) =>
                /\ first_epoch[p] = ResumeStep \div num_update_steps_per_epoch[p]
                /\ global_step[p] >= ResumeStep
                /\ (pc[p] = "loop" /\ calls[p] = 0) =>
                      /\ global_step[p] = ResumeStep
                      /\ current_epoch[p] = first_epoch[p])
    /\ [][ \A p \in Procs :
             Reached(p, "loop") => global_step'[p] >= global_step[p] ]_vars

C5_Witness ==
    /\ store # {}
    /\ ResumeStep >= 1
    /\ \E p \in Procs :
          At(p, "done") /\ updates[p] >= 1 /\ first_epoch[p] >= 1

\* C6: a run resumed from a checkpoint of step S < max_train_steps ends
\* with global_step = max_train_steps, and S plus the updates of the
\* resumed run is exactly max_train_steps.
C6_ResumeTotalsBudget ==
    \A p \in Procs :
        (store # {} /\ ResumeStep < config.max_train_steps /\ At(p, "done")) =>
            /\ global_step[p] = config.max_train_steps
            /\ ResumeStep + updates[p] = config.max_train_steps

\* C7: tracker initialisation, the config.yaml write and the final export
\* are done by the main process only and at most once; the other processes
\* pass the same positions without doing them.
C7_PrimaryOnlyOnce ==
    \A p \in Procs :
        /\ trackers[p] <= 1 /\ snapshots[p] <= 1 /\ exports[p] <= 1
        /\ (~IsMainProcess(p)) =>
              (trackers[p] = 0 /\ snapshots[p] = 0 /\ exports[p] = 0)

C7_Witness ==
    /\ config.num_processes >= 2
    /\ \A p \in Procs : At(p, "done")
    /\ trackers[0] = 1 /\ snapshots[0] = 1 /\ exports[0] = 1

\* C8: no process is at the final checkpoint save or beyond while another
\* process has not yet left its epoch loop.
C8_PostBarrier ==
    \A p \in Procs : \A q \in Procs :
        Reached(p, "save_checkpoint") => Reached(q, "wait_post")

C8_Witness ==
    /\ config.num_processes >= 2
    /\ \E p \in Procs : \E q \in Procs :
          /\ At(p, "save_checkpoint") /\ At(q, "wait_post")
          /\ calls[p] >= 2

\* C9: no process is past the pre-training barrier before the main process
\* has completed tracker initialisation and the config snapshot write.
C9_PreBarrier ==
    \A p \in Procs :
        Reached(p, "derive") => (trackers[0] = 1 /\ snapshots[0] = 1)

C9_Witness ==
    /\ config.num_processes >= 2
    /\ \E p \in Procs : (~IsMainProcess(p)) /\ At(p, "derive") /\ At(0, "wait_pre")

\* C10: if a main-process-only side effect fails on the main process, every
\* process eventually terminates or fails; none waits at a barrier forever.
C10_NoIndefiniteWait ==
    crashed[0] ~> (\A p \in Procs : crashed[p] \/ pc[p] = "done")

\* C11: every process calls the final save, the write is done once and by
\* the main process only, and no process is past the save before the
\* checkpoint of the final step has been written.
C11_SaveOnceByPrimary ==
    \A p \in Procs :
        /\ (~IsMainProcess(p)) => saved[p] = {}
        /\ Cardinality(saved[p]) <= 1
        /\ Reached(p, "export") => saved[0] = {global_step[p]}

C11_Witness ==
    /\ config.num_processes >= 2
    /\ \E p \in Procs :
          /\ ~IsMainProcess(p)
          /\ At(p, "export") /\ At(0, "save_sync")
          /\ saved[0] = {global_step[p]} /\ saved[p] = {}

\* C12: a completing process has gone through loop exit, post-training
\* barrier, final save of the step the loop ended with, export (main
\* process only) and end of training, in this order; the export never
\* precedes the final save.
C12_ClosingOrder ==
    \A p \in Procs :
        /\ exports[p] >= 1 => saved[p] = {global_step[p]}
        /\ Reached(p, "end_training") =>
              /\ saved[0] = {global_step[p]}
              /\ IsMainProcess(p) => exports[p] = 1
        /\ saved[p] # {} => \A q \in Procs : Reached(q, "wait_post")

C12_Witness ==
    /\ \A p \in Procs : At(p, "done")
    /\ exports[0] = 1
    /\ saved[0] = {global_step[0]}
    /\ updates[0] >= 2

\* C18: the step loop is invoked only while global_step < max_train_steps,
\* so a run resumed at or beyond the budget never invokes it.
C18_InvokeOnlyBelowBudget ==
    [][ \A p \in Procs :
          calls'[p] > calls[p] => global_step[p] < config.max_train_steps ]_vars

\* C19: on a run without failure every process passes the pre-training and
\* post-training barriers and reaches the end of training; none blocks
\* forever.
C19_AllReachEnd ==
    <>( \/ \E p \in Procs : crashed[p]
        \/ \A p \in Procs : pc[p] = "done" )

C19_Witness ==
    /\ config.num_processes >= 2
    /\ \A p \in Procs : At(p, "done") /\ calls[p] >= 1

\* C16: the configuration is read-only after loading: the config object of
\* every process equals the loaded configuration at all times, and the
\* config.yaml snapshot equals the configuration as loaded.
C16_ConfigReadOnly ==
    /\ \A p \in Procs : CurrentConfig(p) = LoadedConfig
    /\ snapshot_file \subseteq {LoadedConfig}

\* C17: when a checkpoint is detected at startup and fails the strict load,
\* no process enters the epoch loop (in particular not with global_step = 0
\* and first_epoch = 0); every process ends in auto_resume.
C17_NoSilentFreshStart ==
    (store # {} /\ ~loadable) =>
        \A p \in Procs :
            /\ ~Reached(p, "loop")
            /\ calls[p] = 0 /\ updates[p] = 0

C17_Witness ==
    /\ store # {} /\ ~loadable
    /\ config.num_processes >= 2
    /\ \A p \in Procs : crashed[p] /\ pc[p] = "auto_resume"

\* the setup_logger calls made so far by process p all have the same arguments
SameArgsOnly(p) ==
    /\ Len(results[p]) >= 1
    /\ \A i \in 1 .. Len(results[p]) : results[p][i][1] = results[p][1][1]

C14_NonPrimaryFileLog ==
    \A p \in Procs :
        (~IsMainProcess(p)) => file_lines[p] = log_calls[p]

\* C15: a run that ends with a configuration error has created no output
\* directory and no log file, initialised no tracker and written no config
\* snapshot.
C15_ConfigErrorBeforeEffects ==
    \A p \in Procs :
        (crashed[p] /\ bad_field # NoField /\ pc[p] \in {"start", "derive"}) =>
            \A q \in Procs :
                /\ out_dirs[q] = 0
                /\ LogFiles(q) = {}
                /\ trackers[q] = 0
                /\ snapshots[q] = 0

\* C20: after any sequence of setup_logger calls, every named logger has at
\* most one console handler and at most one file handler per output file.
C20_NoDuplicateHandlers ==
    \A p \in Procs : \A n \in LoggerNames :
        /\ CountKind(handlers[p][n], "console") <= 1
        /\ \A f \in LogFiles(p) : CountFile(handlers[p][n], f) <= 1

====
